---------------------------- MODULE Spec2Model ----------------------------
(***************************************************************************)
(* Model of audio_analyzer_tool.audio_analyzer: AudioDialogAnalyzer, its   *)
(* loader, its two speech-boundary primitives, calculate_reaction_time and *)
(* analyze_multiple_turns.                                                 *)
(*                                                                         *)
(* Samples and the amplitude threshold are small integers (amplitudes in   *)
(* a common unit).  Times are whole multiples of 1/TimeDen seconds.        *)
(* reaction_time_ms, the statistics and the good-reaction threshold are    *)
(* Python floats: they are modelled as IEEE-754 binary64 values with       *)
(* round-to-nearest-even, a mantissa of Precision bits kept as a bit       *)
(* sequence because it does not fit a machine integer of the checker.      *)
(***************************************************************************)
EXTENDS Integers, Sequences, FiniteSets, TLC

(***************************************************************************)
(* Bounds of the model.                                                    *)
(***************************************************************************)
MaxSeg == 4
\* longest segment handed to the two primitives on their own

MaxLen == 3
\* longest channel handed to calculate_reaction_time on its own

MaxTick == 3
\* window times handed to calculate_reaction_time run from -MaxTick to
\* MaxTick ticks

MaxFrames == 2
\* longest recording in a file handed to analyze_multiple_turns

MaxTurns == 2
\* longest list of turns handed to analyze_multiple_turns

MaxRepeat == 3
\* longest list of turns that repeats one window

MaxTurnTick == 2
\* latest window time, in ticks, in a list of turns

MaxErrLen == 1
\* longest recording and latest tick of a call whose failure a caller catches

MaxCaught == 3
\* number of failures a caller catches before it stops calling

TimeDen == 4
\* ticks per second: a window time is tick / TimeDen seconds

(***************************************************************************)
(* Python floats (binary64), non-negative values only: every float the     *)
(* analyzer computes is a quotient, product or sum of non-negative values. *)
(* A float is Zero or [bits, exp] with value int(bits) * 2^exp, bits a     *)
(* most-significant-first sequence of Precision bits starting with 1.      *)
(* Subnormals and overflow do not arise for the magnitudes of the model.   *)
(***************************************************************************)
Precision == 53

\* width of a limb: arithmetic on mantissas runs limb by limb, so that every
\* intermediate value fits a machine integer; ints that multiply or divide a
\* float must be below 2^(31 - LimbBits)
LimbBits == 15

Base == 2 ^ LimbBits

Zero == [bits |-> << >>, exp |-> 0]

Zeros(n) == [i \in 1..n |-> 0]

RECURSIVE NatBits(_)
NatBits(n) == IF n = 0 THEN << >> ELSE Append(NatBits(n \div 2), n % 2)

RECURSIVE BitsVal(_)
BitsVal(b) ==
    IF b = << >> THEN 0
    ELSE 2 * BitsVal(SubSeq(b, 1, Len(b) - 1)) + b[Len(b)]

StripZeros(b) ==
    IF \A i \in 1..Len(b) : b[i] = 0 THEN << >>
    ELSE LET p == CHOOSE i \in 1..Len(b) :
                      b[i] = 1 /\ \A j \in 1..(i-1) : b[j] = 0
         IN  SubSeq(b, p, Len(b))

\* the limbs of a bit sequence, most significant first
ToLimbs(b) ==
    LET n == (Len(b) + LimbBits - 1) \div LimbBits
        p == Zeros(n * LimbBits - Len(b)) \o b
    IN  [i \in 1..n |->
            BitsVal(SubSeq(p, (i-1) * LimbBits + 1, i * LimbBits))]

\* the bit sequence of a limb sequence
ToBits(l) ==
    [j \in 1..(Len(l) * LimbBits) |->
        (l[((j-1) \div LimbBits) + 1]
            \div (2 ^ (LimbBits - 1 - ((j-1) % LimbBits)))) % 2]

\* b + 1 for a bit sequence that is not all ones
IncBits(b) ==
    LET p == CHOOSE i \in 1..Len(b) :
                 b[i] = 0 /\ \A j \in (i+1)..Len(b) : b[j] = 1
    IN  [i \in 1..Len(b) |-> IF i < p THEN b[i] ELSE IF i = p THEN 1 ELSE 0]

\* int(b) * 2^exp (plus a positive amount below the last bit when sticky),
\* rounded to the nearest float, ties to even
RoundBits(b, exp, sticky) ==
    LET s == StripZeros(b)
        L == Len(s)
    IN  IF L = 0 THEN Zero
        ELSE IF L <= Precision
        THEN [bits |-> s \o Zeros(Precision - L), exp |-> exp - (Precision - L)]
        ELSE LET keep  == SubSeq(s, 1, Precision)
                 guard == s[Precision + 1]
                 rest  == sticky \/ \E i \in (Precision + 2)..L : s[i] = 1
                 up    == guard = 1 /\ (rest \/ keep[Precision] = 1)
                 e2    == exp + (L - Precision)
             IN  IF ~up THEN [bits |-> keep, exp |-> e2]
                 ELSE IF \A i \in 1..Precision : keep[i] = 1
                 THEN [bits |-> <<1>> \o Zeros(Precision - 1), exp |-> e2 + 1]
                 ELSE [bits |-> IncBits(keep), exp |-> e2]

\* float(n) for an int n >= 0
FromNat(n) == RoundBits(NatBits(n), 0, FALSE)

\* long division of the limb sequence l by k: quotient limbs and remainder
RECURSIVE DivLimbs(_, _, _, _, _)
DivLimbs(l, k, i, r, q) ==
    IF i > Len(l) THEN [q |-> q, r |-> r]
    ELSE LET t == r * Base + l[i]
         IN  DivLimbs(l, k, i + 1, t % k, Append(q, t \div k))

\* x / k for a float x and an int k > 0 (the int converts exactly)
FDivInt(x, k) ==
    IF x = Zero THEN Zero
    ELSE LET extra == 2 * LimbBits
             qr    == DivLimbs(ToLimbs(x.bits \o Zeros(extra)), k, 1, 0, << >>)
         IN  RoundBits(ToBits(qr.q), x.exp - extra, qr.r # 0)

\* the limbs of int(l) * k, scanned from the least significant limb
RECURSIVE MulLimbs(_, _, _, _, _)
MulLimbs(l, k, i, carry, acc) ==
    IF i = 0 THEN <<carry>> \o acc
    ELSE LET t == l[i] * k + carry
         IN  MulLimbs(l, k, i - 1, t \div Base, <<t % Base>> \o acc)

\* x * k for a float x and an int k > 0 (the int converts exactly)
FMulInt(x, k) ==
    IF x = Zero THEN Zero
    ELSE LET l == ToLimbs(x.bits)
         IN  RoundBits(ToBits(MulLimbs(l, k, Len(l), 0, << >>)), x.exp, FALSE)

\* the limbs of int(a) + int(b), a and b of equal length
RECURSIVE AddLimbs(_, _, _, _, _)
AddLimbs(a, b, i, carry, acc) ==
    IF i = 0 THEN <<carry>> \o acc
    ELSE LET t == a[i] + b[i] + carry
         IN  AddLimbs(a, b, i - 1, t \div Base, <<t % Base>> \o acc)

\* x + y
FAdd(x, y) ==
    IF x = Zero THEN y
    ELSE IF y = Zero THEN x
    ELSE LET e  == IF x.exp < y.exp THEN x.exp ELSE y.exp
             xa == x.bits \o Zeros(x.exp - e)
             ya == y.bits \o Zeros(y.exp - e)
             n  == IF Len(xa) < Len(ya) THEN Len(ya) ELSE Len(xa)
             xl == ToLimbs(Zeros(n - Len(xa)) \o xa)
             yl == ToLimbs(Zeros(n - Len(ya)) \o ya)
         IN  RoundBits(ToBits(AddLimbs(xl, yl, Len(xl), 0, << >>)), e, FALSE)

\* x < y
FLess(x, y) ==
    IF y = Zero THEN FALSE
    ELSE IF x = Zero THEN TRUE
    ELSE \/ x.exp < y.exp
         \/ /\ x.exp = y.exp
            /\ \E i \in 1..Precision :
                  /\ x.bits[i] < y.bits[i]
                  /\ \A j \in 1..(i-1) : x.bits[j] = y.bits[j]

\* x <= y
FLeq(x, y) == x = y \/ FLess(x, y)

(***************************************************************************)
(* Python values: the outcome of a call, exceptions, int() and slicing.    *)
(***************************************************************************)
Pending == [status |-> "pending", value |-> << >>, error |-> << >>]

Return(v) == [status |-> "returned", value |-> v, error |-> << >>]

Raise(e) == [status |-> "raised", value |-> << >>, error |-> e]

\* raise ValueError(msg) at a source line: the exception carries its type,
\* its message and, in its traceback, the line that raised it
ValueError(msg, site) == [type |-> "ValueError", msg |-> msg, site |-> site]

\* the message texts of the analyzer, rendered in English
MsgLoad == "audio file load error"
MsgRate == "expected samplerate Hz, got another"
MsgStereo == "expected stereo audio (2 channels)"
MsgNoAbonent == "no amplitude samples found in the abonent segment"
MsgNoAgent == "no amplitude samples found in the agent segment"
MsgBounds == "time marks are outside the audio"
MsgOrder == "start time must be less than end time"
MsgAgentLen == "abonent speech end is outside the agent audio"
MsgEmpty == "the list of turns must not be empty"

Abs(x) == IF x < 0 THEN -x ELSE x

\* int(tick / TimeDen * samplerate): int() truncates toward zero; the
\* product is exact in binary64 for the dyadic times and small rates used
PyInt(num, den) == IF num >= 0 THEN num \div den ELSE -((-num) \div den)

\* a slice bound as Python and numpy resolve it for a sequence of length n
SliceBound(i, n) ==
    IF i < 0 THEN (IF i + n < 0 THEN 0 ELSE i + n)
    ELSE IF i > n THEN n ELSE i

\* s[start:stop], 0-based
Slice(s, start, stop) ==
    LET a == SliceBound(start, Len(s))
        b == SliceBound(stop, Len(s))
    IN  IF a >= b THEN << >> ELSE SubSeq(s, a + 1, b)

\* s[start:]
SliceFrom(s, start) == Slice(s, start, Len(s))

(***************************************************************************)
(* Speech-boundary primitives.                                             *)
(***************************************************************************)
\* a sample equal to the threshold counted as speech
speech_indices_inclusive(self, audio_segment) ==
    LET abs_seg == [i \in 1..Len(audio_segment) |-> Abs(audio_segment[i])]
        above(i) == abs_seg[i + 1] >= self.amplitude_threshold
    IN  SelectSeq([i \in 1..Len(audio_segment) |-> i - 1], above)

\* np.where(np.abs(audio_segment) > amplitude_threshold)[0]: the 0-based
\* indices of the samples above the threshold, ascending
speech_indices(self, audio_segment) ==
    LET abs_seg == [i \in 1..Len(audio_segment) |-> Abs(audio_segment[i])]
        above(i) == abs_seg[i + 1] > self.amplitude_threshold
    IN  SelectSeq([i \in 1..Len(audio_segment) |-> i - 1], above)

np_max(s) == CHOOSE x \in {s[i] : i \in 1..Len(s)} :
                 \A j \in 1..Len(s) : s[j] <= x

np_min(s) == CHOOSE x \in {s[i] : i \in 1..Len(s)} :
                 \A j \in 1..Len(s) : s[j] >= x

\* the first sample above the threshold taken for the end of speech
find_actual_speech_end_first(self, audio_segment) ==
    LET idx == speech_indices(self, audio_segment)
    IN  IF Len(idx) = 0 THEN Raise(ValueError(MsgNoAbonent, 70))
        ELSE Return(np_min(idx))

find_actual_speech_end(self, audio_segment) ==
    LET idx == speech_indices(self, audio_segment)
    IN  IF Len(idx) = 0 THEN Raise(ValueError(MsgNoAbonent, 70))
        ELSE Return(np_max(idx))

\* the agent's silence reported with the abonent's message
find_speech_start_as_abonent(self, audio_segment) ==
    LET idx == speech_indices(self, audio_segment)
    IN  IF Len(idx) = 0 THEN Raise(ValueError(MsgNoAbonent, 70))
        ELSE Return(np_min(idx))

find_speech_start(self, audio_segment) ==
    LET idx == speech_indices(self, audio_segment)
    IN  IF Len(idx) = 0 THEN Raise(ValueError(MsgNoAgent, 80))
        ELSE Return(np_min(idx))

(***************************************************************************)
(* Reaction time of one window.                                            *)
(***************************************************************************)
\* (reaction_time_samples / samplerate) * 1000
reaction_ms(reaction_time_samples, samplerate) ==
    FMulInt(FDivInt(FromNat(reaction_time_samples), samplerate), 1000)

\* a reaction time equal to the threshold counted as not good
is_good_reaction_strict(self, reaction_time_ms) ==
    FLess(reaction_time_ms, self.good_reaction_threshold_ms)

\* reaction_time_ms <= self.good_reaction_threshold_ms
is_good_reaction(self, reaction_time_ms) ==
    FLeq(reaction_time_ms, self.good_reaction_threshold_ms)

ReactionTimeResult(ms, good, abonent_end, agent_start) ==
    [reaction_time_ms |-> ms, is_good_reaction |-> good,
     abonent_speech_end_idx |-> abonent_end,
     agent_speech_start_idx |-> agent_start]

calculate_reaction_time(self, abonent, agent, start_time, end_time, samplerate) ==
    LET start_idx == PyInt(start_time * samplerate, TimeDen)
        end_idx   == PyInt(end_time * samplerate, TimeDen)
        abonent_segment == Slice(abonent, start_idx, end_idx)
        end_speech      == find_actual_speech_end(self, abonent_segment)
        abonent_speech_end_idx == start_idx + end_speech.value
        agent_after     == SliceFrom(agent, abonent_speech_end_idx)
        agent_speech    == find_speech_start(self, agent_after)
        agent_speech_start_idx == abonent_speech_end_idx + agent_speech.value
        reaction_time_samples  == agent_speech_start_idx - abonent_speech_end_idx
        reaction_time_ms       == reaction_ms(reaction_time_samples, samplerate)
        good == is_good_reaction(self, reaction_time_ms)
    IN  IF start_idx >= Len(abonent) \/ end_idx > Len(abonent)
        THEN Raise(ValueError(MsgBounds, 93))
        ELSE IF start_idx >= end_idx
        THEN Raise(ValueError(MsgOrder, 96))
        ELSE IF end_speech.status = "raised"
        THEN end_speech
        ELSE IF abonent_speech_end_idx >= Len(agent)
        THEN Raise(ValueError(MsgAgentLen, 107))
        ELSE IF agent_speech.status = "raised"
        THEN agent_speech
        ELSE Return(ReactionTimeResult(reaction_time_ms, good,
                                       abonent_speech_end_idx,
                                       agent_speech_start_idx))

(***************************************************************************)
(* Loader.  A file is what the decoder finds at filepath: nothing it can   *)
(* decode, or a sample rate and a sample array (1-D for a mono file, else  *)
(* frames x channels).                                                     *)
(***************************************************************************)
\* sf.read(filepath)
sf_read(file) ==
    IF ~file.decodable
    THEN Raise([type |-> "LibsndfileError", msg |-> "error opening file",
                    site |-> 49])
    ELSE Return([data |-> file.data, samplerate |-> file.samplerate])

\* the channel-count check made before the sample-rate check
load_audio_channels_first(self, file) ==
    LET read == sf_read(file)
        data == read.value.data
    IN  IF read.status = "raised"
        THEN Raise(ValueError(MsgLoad, 51))
        ELSE IF data.ndim # 2 \/ data.shape[2] # 2
        THEN Raise(ValueError(MsgStereo, 57))
        ELSE IF read.value.samplerate # self.expected_samplerate
        THEN Raise(ValueError(MsgRate, 54))
        ELSE Return([abonent |-> [r \in 1..Len(data.rows) |-> data.rows[r][1]],
                     agent |-> [r \in 1..Len(data.rows) |-> data.rows[r][2]],
                     samplerate |-> read.value.samplerate])

\* the decoder's exception let through instead of wrapped
load_audio_unwrapped(self, file) ==
    LET read == sf_read(file)
        data == read.value.data
    IN  IF read.status = "raised"
        THEN read
        ELSE IF read.value.samplerate # self.expected_samplerate
        THEN Raise(ValueError(MsgRate, 54))
        ELSE IF data.ndim # 2 \/ data.shape[2] # 2
        THEN Raise(ValueError(MsgStereo, 57))
        ELSE Return([abonent |-> [r \in 1..Len(data.rows) |-> data.rows[r][1]],
                     agent |-> [r \in 1..Len(data.rows) |-> data.rows[r][2]],
                     samplerate |-> read.value.samplerate])

load_audio(self, file) ==
    LET read == sf_read(file)
        data == read.value.data
    IN  IF read.status = "raised"
        THEN Raise(ValueError(MsgLoad, 51))
        ELSE IF read.value.samplerate # self.expected_samplerate
        THEN Raise(ValueError(MsgRate, 54))
        ELSE IF data.ndim # 2 \/ data.shape[2] # 2
        THEN Raise(ValueError(MsgStereo, 57))
        ELSE Return([abonent |-> [r \in 1..Len(data.rows) |-> data.rows[r][1]],
                     agent |-> [r \in 1..Len(data.rows) |-> data.rows[r][2]],
                     samplerate |-> read.value.samplerate])

(***************************************************************************)
(* Statistics of a results list.                                           *)
(***************************************************************************)
\* sum(xs): left to right from the int 0, each addition rounded
RECURSIVE py_sum(_)
py_sum(xs) ==
    IF xs = << >> THEN Zero
    ELSE FAdd(py_sum(SubSeq(xs, 1, Len(xs) - 1)), xs[Len(xs)])

py_min(xs) == CHOOSE x \in {xs[k] : k \in 1..Len(xs)} :
                  \A k \in 1..Len(xs) : FLeq(x, xs[k])

py_max(xs) == CHOOSE x \in {xs[k] : k \in 1..Len(xs)} :
                  \A k \in 1..Len(xs) : FLeq(xs[k], x)

\* every result counted as good
count_good_all(rs) == Len(rs)

\* sum(1 for r in results if r.is_good_reaction)
count_good(rs) == Cardinality({k \in 1..Len(rs) : rs[k].is_good_reaction})

\* the DialogStatistics(...) expression; the first division raises on an
\* empty list
DialogStatistics(rs) ==
    LET reaction_times == [k \in 1..Len(rs) |-> rs[k].reaction_time_ms]
        good_reactions_count == count_good(rs)
    IN  IF Len(reaction_times) = 0
        THEN Raise([type |-> "ZeroDivisionError", msg |-> "division by zero",
                    site |-> 160])
        ELSE Return(
          [results |-> rs,
           average_reaction_time_ms |->
               FDivInt(py_sum(reaction_times), Len(reaction_times)),
           good_reactions_count |-> good_reactions_count,
           good_reactions_percentage |->
               FMulInt(FDivInt(FromNat(good_reactions_count), Len(rs)), 100),
           min_reaction_time_ms |-> py_min(reaction_times),
           max_reaction_time_ms |-> py_max(reaction_times)])

(***************************************************************************)
(* State.                                                                  *)
(***************************************************************************)
VARIABLES
    self,        \* the analyzer: its three configuration fields
    args,        \* the arguments of the call in progress
    pc,          \* position of the call in progress
    abonent,     \* analyze_multiple_turns: channel 0 once loaded
    agent,       \* analyze_multiple_turns: channel 1 once loaded
    samplerate,  \* analyze_multiple_turns: sample rate once loaded
    i,           \* analyze_multiple_turns: number of turns taken by the loop
    results,     \* analyze_multiple_turns: the results list
    calls,       \* the calls made so far by the call in progress, in order
    outcome,     \* what the call returned or raised
    caught       \* the failures the caller has caught from earlier calls

vars == <<self, args, pc, abonent, agent, samplerate, i, results, calls,
          outcome, caught>>

\* __init__
AudioDialogAnalyzer(expected, threshold, good_threshold_ms) ==
    [expected_samplerate |-> expected,
     amplitude_threshold |-> threshold,
     good_reaction_threshold_ms |-> good_threshold_ms]

\* all sequences over S of length at most n
RECURSIVE SeqsUpTo(_, _)
SeqsUpTo(S, n) ==
    IF n = 0 THEN {<< >>}
    ELSE LET shorter == SeqsUpTo(S, n - 1)
         IN  shorter \cup {Append(s, x) : s \in shorter, x \in S}

SampleRates == {4, 11}

Ticks == (-MaxTick)..MaxTick

\* the locals of analyze_multiple_turns while no such call is in progress
NoBatch ==
    /\ abonent = << >>
    /\ agent = << >>
    /\ samplerate = 0
    /\ i = 0
    /\ results = << >>
    /\ calls = << >>
    /\ caught = {}

(***************************************************************************)
(* SpecPrim: the two primitives applied to one segment.                    *)
(***************************************************************************)
PrimSamples == {-2, -1, 0, 1, 2}

PrimThresholds == {0, 1}

InitPrim ==
    /\ self \in {AudioDialogAnalyzer(4, t, FromNat(250)) : t \in PrimThresholds}
    /\ args \in [audio_segment : SeqsUpTo(PrimSamples, MaxSeg)]
    /\ pc = "prim"
    /\ outcome = [find_actual_speech_end |-> Pending,
                  find_speech_start |-> Pending]
    /\ NoBatch

CallFindActualSpeechEnd ==
    /\ pc = "prim"
    /\ outcome.find_actual_speech_end.status = "pending"
    /\ outcome' = [outcome EXCEPT !.find_actual_speech_end =
                       find_actual_speech_end(self, args.audio_segment)]
    /\ UNCHANGED <<self, args, pc, abonent, agent, samplerate, i, results,
                   calls, caught>>

CallFindSpeechStart ==
    /\ pc = "prim"
    /\ outcome.find_speech_start.status = "pending"
    /\ outcome' = [outcome EXCEPT !.find_speech_start =
                       find_speech_start(self, args.audio_segment)]
    /\ UNCHANGED <<self, args, pc, abonent, agent, samplerate, i, results,
                   calls, caught>>

NextPrim == CallFindActualSpeechEnd \/ CallFindSpeechStart

SpecPrim == InitPrim /\ [][NextPrim]_vars

(***************************************************************************)
(* SpecReact: calculate_reaction_time applied to two channels and a window.*)
(***************************************************************************)
ReactSamples == {-2, 0, 1}

ReactGood == {250, 1200}

InitReact ==
    /\ self \in {AudioDialogAnalyzer(4, 1, FromNat(g)) : g \in ReactGood}
    /\ args \in [abonent : SeqsUpTo(ReactSamples, MaxLen),
                 agent : SeqsUpTo(ReactSamples, MaxLen),
                 start_time : Ticks, end_time : Ticks,
                 samplerate : SampleRates]
    /\ pc = "react"
    /\ outcome = Pending
    /\ NoBatch

CallCalculateReactionTime ==
    /\ pc = "react"
    /\ outcome' = calculate_reaction_time(self, args.abonent, args.agent,
                      args.start_time, args.end_time, args.samplerate)
    /\ pc' = "done"
    /\ UNCHANGED <<self, args, abonent, agent, samplerate, i, results, calls,
                   caught>>

NextReact == CallCalculateReactionTime

SpecReact == InitReact /\ [][NextReact]_vars

(***************************************************************************)
(* SpecSearch: one call of calculate_reaction_time on channels whose       *)
(* samples are either above the threshold or equal to it.                  *)
(***************************************************************************)
SearchSamples == {-2, 1}

SearchGood == {250}

InitSearch ==
    /\ self \in {AudioDialogAnalyzer(4, 1, FromNat(g)) : g \in SearchGood}
    /\ args \in [abonent : SeqsUpTo(SearchSamples, MaxLen),
                 agent : SeqsUpTo(SearchSamples, MaxLen),
                 start_time : Ticks, end_time : Ticks,
                 samplerate : SampleRates]
    /\ pc = "react"
    /\ outcome = Pending
    /\ NoBatch

SpecSearch == InitSearch /\ [][NextReact]_vars

(***************************************************************************)
(* Spec: one call of analyze_multiple_turns(filepath, turns).              *)
(***************************************************************************)
TurnSamples == {0, 2}

TurnGood == {100}

\* the sample arrays the decoder can hand back
StereoData(n) ==
    {[ndim |-> 2, shape |-> <<Len(rows), 2>>, rows |-> rows] :
        rows \in SeqsUpTo(TurnSamples \X TurnSamples, n)}

MonoData == {[ndim |-> 1, shape |-> <<1>>, rows |-> <<0>>]}

ThreeChannelData ==
    {[ndim |-> 2, shape |-> <<1, 3>>, rows |-> << <<0, 0, 0>> >>]}

\* the files with at most n frames
Files(n) ==
    {[decodable |-> FALSE, samplerate |-> 0,
      data |-> [ndim |-> 1, shape |-> <<0>>, rows |-> << >>]]}
    \cup
    {[decodable |-> TRUE, samplerate |-> sr, data |-> d] :
        sr \in SampleRates,
        d \in StereoData(n) \cup MonoData \cup ThreeChannelData}

\* the windows of a list of turns: start and end times in ticks, the end not
\* before the start (reversed windows are exercised in SpecReact)
Turns(t) == {w \in (0..t) \X (0..t) : w[1] <= w[2]}

Analyzers == {AudioDialogAnalyzer(sr, 1, FromNat(g)) :
                 sr \in SampleRates, g \in TurnGood}

\* a file that load_audio of the analyzer accepts
Loadable(a, file) ==
    /\ file.decodable
    /\ file.samplerate = a.expected_samplerate
    /\ file.data.ndim = 2
    /\ file.data.shape[2] = 2

\* The arguments of the call.  A file that does not load comes with a list
\* of at most one turn: the loop never runs on it, so that only the
\* emptiness of its list is ever looked at.
Init ==
    /\ self \in Analyzers
    /\ args \in [file : Files(MaxFrames),
                 turns : SeqsUpTo(Turns(MaxTurnTick), MaxTurns)]
    /\ Loadable(self, args.file) \/ Len(args.turns) <= 1
    /\ pc = "start"
    /\ outcome = Pending
    /\ NoBatch

SfRead == [op |-> "sf.read", turn |-> 0]

Calc(k) == [op |-> "calculate_reaction_time", turn |-> k]

\* the empty-list check made only after the loop
CheckTurnsLate ==
    /\ pc = "start"
    /\ pc' = "load"
    /\ UNCHANGED <<self, args, abonent, agent, samplerate, i, results, calls,
                   outcome, caught>>

\* if not turns: raise ValueError(...)
CheckTurns ==
    /\ pc = "start"
    /\ IF args.turns = << >>
       THEN /\ outcome' = Raise(ValueError(MsgEmpty, 144))
            /\ pc' = "done"
       ELSE /\ pc' = "load"
            /\ UNCHANGED outcome
    /\ UNCHANGED <<self, args, abonent, agent, samplerate, i, results, calls,
                   caught>>

\* abonent, agent, samplerate = self.load_audio(filepath)
LoadAudio ==
    /\ pc = "load"
    /\ calls' = Append(calls, SfRead)
    /\ LET loaded == load_audio(self, args.file)
       IN  IF loaded.status = "raised"
           THEN /\ outcome' = loaded
                /\ pc' = "done"
                /\ UNCHANGED <<abonent, agent, samplerate>>
           ELSE /\ abonent' = loaded.value.abonent
                /\ agent' = loaded.value.agent
                /\ samplerate' = loaded.value.samplerate
                /\ pc' = "loop"
                /\ UNCHANGED outcome
    /\ UNCHANGED <<self, args, i, results, caught>>

\* a failing window skipped, the loop going on to the next one
TurnSkipFailed ==
    /\ pc = "loop"
    /\ i < Len(args.turns)
    /\ i' = i + 1
    /\ calls' = Append(calls, Calc(i + 1))
    /\ LET result == calculate_reaction_time(self, abonent, agent,
                         args.turns[i + 1][1], args.turns[i + 1][2], samplerate)
       IN  results' = IF result.status = "raised" THEN results
                      ELSE Append(results, result.value)
    /\ UNCHANGED <<self, args, pc, abonent, agent, samplerate, outcome,
                   caught>>

\* one iteration of the for loop: calculate_reaction_time on the next turn,
\* its result appended, its exception leaving analyze_multiple_turns
Turn ==
    /\ pc = "loop"
    /\ i < Len(args.turns)
    /\ i' = i + 1
    /\ calls' = Append(calls, Calc(i + 1))
    /\ LET result == calculate_reaction_time(self, abonent, agent,
                         args.turns[i + 1][1], args.turns[i + 1][2], samplerate)
       IN  IF result.status = "raised"
           THEN /\ outcome' = result
                /\ pc' = "done"
                /\ UNCHANGED results
           ELSE /\ results' = Append(results, result.value)
                /\ UNCHANGED <<outcome, pc>>
    /\ UNCHANGED <<self, args, abonent, agent, samplerate, caught>>

\* the statistics computed after the loop and returned
Statistics ==
    /\ pc = "loop"
    /\ i = Len(args.turns)
    /\ outcome' = DialogStatistics(results)
    /\ pc' = "done"
    /\ UNCHANGED <<self, args, abonent, agent, samplerate, i, results, calls,
                   caught>>

Next == CheckTurns \/ LoadAudio \/ Turn \/ Statistics

Spec == Init /\ [][Next]_vars

(***************************************************************************)
(* SpecRepeat: one call of analyze_multiple_turns on a list of turns that  *)
(* names the same window again and again.                                  *)
(***************************************************************************)
InitRepeat ==
    /\ self \in Analyzers
    /\ args \in [file : Files(MaxFrames),
                 turns : {[k \in 1..n |-> w] :
                             n \in 0..MaxRepeat, w \in Turns(MaxTurnTick)}]
    /\ pc = "start"
    /\ outcome = Pending
    /\ NoBatch

SpecRepeat == InitRepeat /\ [][Next]_vars

(***************************************************************************)
(* SpecErr: a caller that calls analyze_multiple_turns and                 *)
(* calculate_reaction_time on one analyzer again and again and keeps the   *)
(* exceptions it catches.                                                  *)
(***************************************************************************)
Idle ==
    /\ args = << >>
    /\ pc = "idle"
    /\ outcome = Pending
    /\ abonent = << >>
    /\ agent = << >>
    /\ samplerate = 0
    /\ i = 0
    /\ results = << >>
    /\ calls = << >>

InitErr ==
    /\ self \in Analyzers
    /\ Idle
    /\ caught = {}

BecomeIdle ==
    /\ args' = << >>
    /\ pc' = "idle"
    /\ outcome' = Pending
    /\ abonent' = << >>
    /\ agent' = << >>
    /\ samplerate' = 0
    /\ i' = 0
    /\ results' = << >>
    /\ calls' = << >>

\* the caller calls analyze_multiple_turns
StartBatch ==
    /\ pc = "idle"
    /\ Cardinality(caught) < MaxCaught
    /\ args' \in [file : Files(MaxErrLen),
                  turns : SeqsUpTo(Turns(MaxErrLen), 1)]
    /\ pc' = "start"
    /\ UNCHANGED <<self, abonent, agent, samplerate, i, results, calls,
                   outcome, caught>>

\* the caller calls calculate_reaction_time
StartReact ==
    /\ pc = "idle"
    /\ Cardinality(caught) < MaxCaught
    /\ args' \in [abonent : SeqsUpTo(TurnSamples, MaxErrLen),
                  agent : SeqsUpTo(TurnSamples, MaxErrLen),
                  start_time : 0..MaxErrLen, end_time : 0..MaxErrLen,
                  samplerate : {self.expected_samplerate}]
    /\ pc' = "react"
    /\ UNCHANGED <<self, abonent, agent, samplerate, i, results, calls,
                   outcome, caught>>

\* the caller catches the exception of the call
Catch ==
    /\ pc = "done"
    /\ outcome.status = "raised"
    /\ caught' = caught \cup {outcome.error}
    /\ BecomeIdle
    /\ UNCHANGED self

\* the caller takes the value the call returned
Finish ==
    /\ pc = "done"
    /\ outcome.status = "returned"
    /\ BecomeIdle
    /\ UNCHANGED <<self, caught>>

NextErr ==
    \/ StartBatch
    \/ StartReact
    \/ CheckTurns
    \/ LoadAudio
    \/ Turn
    \/ Statistics
    \/ CallCalculateReactionTime
    \/ Catch
    \/ Finish

SpecErr == InitErr /\ [][NextErr]_vars

(***************************************************************************)
(* Properties of the primitives (SpecPrim).                                *)
(***************************************************************************)
\* the 0-based indices of the samples of the segment strictly above the
\* threshold
Loud == {k \in 0..(Len(args.audio_segment) - 1) :
            Abs(args.audio_segment[k + 1]) > self.amplitude_threshold}

\* C3: find_actual_speech_end returns the largest index whose sample is
\* strictly above the threshold and find_speech_start the smallest, so the
\* end is never before the start; each fails exactly when no sample of the
\* segment is above the threshold.
Thm_C3 ==
    LET e == outcome.find_actual_speech_end
        s == outcome.find_speech_start
    IN  /\ e.status # "pending" => (e.status = "raised" <=> Loud = {})
        /\ s.status # "pending" => (s.status = "raised" <=> Loud = {})
        /\ e.status = "returned" =>
              e.value \in Loud /\ \A k \in Loud : k <= e.value
        /\ s.status = "returned" =>
              s.value \in Loud /\ \A k \in Loud : k >= s.value
        /\ e.status = "returned" /\ s.status = "returned" =>
              e.value >= s.value

\* both primitives returned, on a segment whose last sample equals the
\* threshold and lies after the end of speech
Wit_C3 ==
    /\ outcome.find_actual_speech_end.status = "returned"
    /\ outcome.find_speech_start.status = "returned"
    /\ outcome.find_speech_start.value < outcome.find_actual_speech_end.value
    /\ outcome.find_actual_speech_end.value < Len(args.audio_segment) - 1
    /\ self.amplitude_threshold > 0
    /\ Abs(args.audio_segment[Len(args.audio_segment)]) = self.amplitude_threshold

(***************************************************************************)
(* Properties of calculate_reaction_time (SpecReact).                      *)
(***************************************************************************)
WindowStart == PyInt(args.start_time * args.samplerate, TimeDen)

WindowEnd == PyInt(args.end_time * args.samplerate, TimeDen)

\* C1 as claimed, already for the windows that lie inside the recording: on
\* success the agent's speech start lies strictly after the abonent's speech
\* end.
Cex_C1 ==
    (/\ outcome.status = "returned"
     /\ 0 <= WindowStart
     /\ WindowEnd <= Len(args.abonent))
    => outcome.value.agent_speech_start_idx
           > outcome.value.abonent_speech_end_idx

\* C2 as claimed: a window with an index outside [0, len(abonent)], or with
\* start index >= end index, fails with a range error and yields no result.
Cex_C2 ==
    (/\ pc = "done"
     /\ \/ WindowStart \notin 0..Len(args.abonent)
        \/ WindowEnd \notin 0..Len(args.abonent)
        \/ WindowStart >= WindowEnd)
    => /\ outcome.status = "raised"
       /\ outcome.error.msg \in {MsgBounds, MsgOrder}

\* C4: a returned result is good exactly when its reaction time does not
\* exceed the analyzer's good_reaction_threshold_ms; equal counts as good.
Thm_C4 ==
    outcome.status = "returned" =>
        (outcome.value.is_good_reaction
            <=> ~FLess(self.good_reaction_threshold_ms,
                       outcome.value.reaction_time_ms))

\* a result whose reaction time equals the threshold, reported good
Wit_C4 ==
    /\ outcome.status = "returned"
    /\ outcome.value.reaction_time_ms = self.good_reaction_threshold_ms
    /\ outcome.value.is_good_reaction

(***************************************************************************)
(* Properties of analyze_multiple_turns (Spec).                            *)
(***************************************************************************)
\* what loading the file of the call gives
Loaded == load_audio(self, args.file)

\* what calculate_reaction_time gives on the k-th turn of the call, on the
\* channels of the file
OnTurn(k) ==
    calculate_reaction_time(self, Loaded.value.abonent, Loaded.value.agent,
        args.turns[k][1], args.turns[k][2], Loaded.value.samplerate)

Failing == {k \in 1..Len(args.turns) : OnTurn(k).status = "raised"}

FirstFailing == CHOOSE k \in Failing : \A j \in Failing : k <= j

\* the turns on which calculate_reaction_time has been called, in call order
Evaluated ==
    LET isCalc(c) == c.op = "calculate_reaction_time"
        cs == SelectSeq(calls, isCalc)
    IN  [k \in 1..Len(cs) |-> cs[k].turn]

\* C5: windows are evaluated in input order; the first failing window ends
\* the call with that window's error, no window after it is evaluated and
\* no statistics are returned; statistics are returned only if every window
\* succeeds.
Thm_C5 ==
    LET failing == Failing
        first == CHOOSE k \in failing : \A j \in failing : k <= j
        n == Len(Evaluated)
    IN  /\ Evaluated = [k \in 1..n |-> k]
        /\ (Loaded.status = "returned" /\ failing # {})
              => /\ n <= first
                 /\ outcome.status # "returned"
                 /\ pc = "done" => /\ n = first
                                   /\ outcome = OnTurn(first)
        /\ outcome.status = "returned"
              => /\ Loaded.status = "returned"
                 /\ failing = {}
                 /\ n = Len(args.turns)

\* a call ended by the first of its two windows: the second would have
\* succeeded and was not evaluated
Wit_C5 ==
    /\ pc = "done"
    /\ Loaded.status = "returned"
    /\ Len(args.turns) = 2
    /\ Failing = {1}
    /\ outcome.status = "raised"
    /\ Evaluated = <<1>>

\* C6: with an empty list of turns the call fails with the empty-list error
\* and the decoder is never invoked, whatever the file.
Thm_C6 ==
    args.turns = << >> =>
        /\ \A k \in 1..Len(calls) : calls[k].op # "sf.read"
        /\ pc = "done" => /\ outcome.status = "raised"
                          /\ outcome.error = ValueError(MsgEmpty, 144)

\* the empty list refused on a file the decoder cannot read
Wit_C6 ==
    /\ pc = "done"
    /\ args.turns = << >>
    /\ ~args.file.decodable
    /\ outcome.status = "raised"
    /\ outcome.error.msg = MsgEmpty
    /\ calls = << >>

\* C7 as claimed: the returned statistics have
\* min_reaction_time_ms <= average_reaction_time_ms <= max_reaction_time_ms.
Cex_C7 ==
    (pc = "done" /\ outcome.status = "returned") =>
        /\ FLeq(outcome.value.min_reaction_time_ms,
                outcome.value.average_reaction_time_ms)
        /\ FLeq(outcome.value.average_reaction_time_ms,
                outcome.value.max_reaction_time_ms)

\* C8: the returned results are the per-window results in window order;
\* good_reactions_count is the number of good ones, between 0 and the number
\* of windows; good_reactions_percentage is count / number * 100, between 0
\* and 100, 0 only for count 0, 100 only for all good, 50 for half.
Thm_C8 ==
    (pc = "done" /\ outcome.status = "returned") =>
        LET st == outcome.value
            n  == Len(args.turns)
            good == {k \in 1..n : OnTurn(k).value.is_good_reaction}
        IN  /\ st.results = [k \in 1..n |-> OnTurn(k).value]
            /\ st.good_reactions_count = Cardinality(good)
            /\ st.good_reactions_count \in 0..n
            /\ st.good_reactions_percentage =
                   FMulInt(FDivInt(FromNat(st.good_reactions_count), n), 100)
            /\ FLeq(Zero, st.good_reactions_percentage)
            /\ FLeq(st.good_reactions_percentage, FromNat(100))
            /\ st.good_reactions_percentage = Zero
                   <=> st.good_reactions_count = 0
            /\ st.good_reactions_percentage = FromNat(100)
                   <=> st.good_reactions_count = n
            /\ 2 * st.good_reactions_count = n
                   => st.good_reactions_percentage = FromNat(50)

\* statistics over two windows, the first good and the second not: 50 %
Wit_C8 ==
    /\ pc = "done"
    /\ outcome.status = "returned"
    /\ Len(outcome.value.results) = 2
    /\ outcome.value.good_reactions_count = 1
    /\ outcome.value.results[1].is_good_reaction
    /\ ~outcome.value.results[2].is_good_reaction
    /\ outcome.value.good_reactions_percentage = FromNat(50)

\* the decoder has been invoked by the call
ReadDone == \E k \in 1..Len(calls) : calls[k].op = "sf.read"

RateOk == args.file.samplerate = self.expected_samplerate

Stereo == args.file.data.ndim = 2 /\ args.file.data.shape[2] = 2

\* C9: once the file is read, a sample rate other than expected_samplerate
\* fails the load with the sample-rate error whatever the channel count; a
\* matching rate with other than 2 channels fails with the stereo error;
\* otherwise the load succeeds with channel 0 as abonent and channel 1 as
\* agent, of equal length.
Thm_C9 ==
    (ReadDone /\ args.file.decodable) =>
        /\ ~RateOk => /\ pc = "done"
                      /\ outcome.status = "raised"
                      /\ outcome.error = ValueError(MsgRate, 54)
        /\ (RateOk /\ ~Stereo) => /\ pc = "done"
                                  /\ outcome.status = "raised"
                                  /\ outcome.error = ValueError(MsgStereo, 57)
        /\ (RateOk /\ Stereo) =>
              /\ outcome.status = "raised" =>
                    outcome.error.msg \notin {MsgLoad, MsgRate, MsgStereo}
              /\ samplerate = args.file.samplerate
              /\ Len(abonent) = Len(agent)
              /\ Len(abonent) = Len(args.file.data.rows)
              /\ \A r \in 1..Len(args.file.data.rows) :
                    /\ abonent[r] = args.file.data.rows[r][1]
                    /\ agent[r] = args.file.data.rows[r][2]

\* a file with a wrong sample rate and three channels refused for its rate
Wit_C9 ==
    /\ ReadDone
    /\ args.file.decodable
    /\ ~RateOk
    /\ args.file.data.shape = <<1, 3>>
    /\ outcome.status = "raised"
    /\ outcome.error.msg = MsgRate

\* a stereo file loaded, its two channels differing
Wit_C9_loaded ==
    /\ pc = "loop"
    /\ Len(abonent) = 2
    /\ abonent # agent

(***************************************************************************)
(* Properties of the failures a caller sees (SpecErr).                     *)
(***************************************************************************)
\* the kind of a failure, by the statement that raised it
Kind(e) ==
    CASE e.site = 51 -> "DecodeError"
      [] e.site \in {54, 57} -> "FormatError"
      [] e.site \in {93, 96, 107} -> "RangeError"
      [] e.site \in {70, 80} -> "NoSpeechDetected"
      [] e.site = 144 -> "EmptyInputError"
      [] OTHER -> "none"

\* the failures the caller has seen: those caught and the one just raised
Seen == caught \cup (IF outcome.status = "raised" THEN {outcome.error} ELSE {})

\* C10 as claimed: two failures of different kinds never have the same
\* error type.
Cex_C10 ==
    \A f \in Seen : \A g \in Seen : Kind(f) # Kind(g) => f.type # g.type

\* C10, amended: every failure is one of the five kinds and is a ValueError,
\* whatever its kind; two failures of different kinds never have the same
\* message.
Thm_C10 ==
    /\ \A f \in Seen : Kind(f) # "none" /\ f.type = "ValueError"
    /\ \A f \in Seen : \A g \in Seen : Kind(f) # Kind(g) => f.msg # g.msg

\* two failures of different kinds caught, a third of yet another kind raised
Wit_C10 ==
    /\ Cardinality({Kind(f) : f \in caught}) = 2
    /\ outcome.status = "raised"
    /\ Kind(outcome.error) \notin {Kind(f) : f \in caught}


(***************************************************************************)
(* Further properties of calculate_reaction_time (SpecSearch).             *)
(***************************************************************************)
\* the part of the abonent channel the call searches
AbonentSegment == Slice(args.abonent, WindowStart, WindowEnd)

\* the 0-based indices of AbonentSegment strictly above the threshold
SegmentLoud ==
    {k \in 0..(Len(AbonentSegment) - 1) :
        Abs(AbonentSegment[k + 1]) > self.amplitude_threshold}

\* the index in the recording of the last loud sample of AbonentSegment
SpeechEnd ==
    WindowStart + (CHOOSE k \in SegmentLoud : \A j \in SegmentLoud : j <= k)

\* the 0-based indices n, n+1, ... of the agent channel strictly above the
\* threshold
AgentLoudFrom(n) ==
    {j \in 0..(Len(args.agent) - 1) :
        j >= n /\ Abs(args.agent[j + 1]) > self.amplitude_threshold}

RangeFailure ==
    /\ outcome.status = "raised"
    /\ outcome.error.msg \in {MsgBounds, MsgOrder, MsgAgentLen}

\* C11: a call that gets past its range checks and finds no abonent sample
\* above the threshold in the window fails with the failure of
\* find_actual_speech_end, unchanged, which names the abonent, and the agent
\* channel has no part in it; one that finds abonent speech but no agent
\* sample above the threshold at or after abonent_speech_end_idx fails with
\* the failure of find_speech_start, unchanged, which names the agent.  The
\* two failures differ, and each occurs only in its own case.
Thm_C11 ==
    (pc = "done" /\ ~RangeFailure) =>
        /\ SegmentLoud = {} =>
              /\ outcome = Raise(ValueError(MsgNoAbonent, 70))
              /\ outcome = find_actual_speech_end(self, AbonentSegment)
              /\ \A other \in SeqsUpTo(SearchSamples, MaxLen) :
                    calculate_reaction_time(self, args.abonent, other,
                        args.start_time, args.end_time, args.samplerate)
                    = outcome
        /\ (SegmentLoud # {} /\ AgentLoudFrom(SpeechEnd) = {}) =>
              /\ outcome = Raise(ValueError(MsgNoAgent, 80))
              /\ outcome = find_speech_start(self, << >>)
        /\ outcome.status = "raised" =>
              /\ outcome.error.msg = MsgNoAbonent => SegmentLoud = {}
              /\ outcome.error.msg = MsgNoAgent
                    => /\ SegmentLoud # {}
                       /\ SpeechEnd >= 0 => AgentLoudFrom(SpeechEnd) = {}
        /\ MsgNoAbonent # MsgNoAgent

\* abonent speech found in the window and an agent that speaks only before
\* it: the failure names the agent
Wit_C11 ==
    /\ pc = "done"
    /\ WindowStart > 0
    /\ SegmentLoud # {}
    /\ AgentLoudFrom(0) # {}
    /\ AgentLoudFrom(SpeechEnd) = {}
    /\ outcome.status = "raised"
    /\ outcome.error.msg = MsgNoAgent

\* a silent window on an abonent who speaks outside it, the agent speaking:
\* the failure names the abonent
Wit_C11_abonent ==
    /\ pc = "done"
    /\ ~RangeFailure
    /\ SegmentLoud = {}
    /\ \E k \in 1..Len(args.abonent) :
          Abs(args.abonent[k]) > self.amplitude_threshold
    /\ AgentLoudFrom(0) # {}
    /\ outcome.status = "raised"
    /\ outcome.error.msg = MsgNoAbonent

\* idx is x / TimeDen truncated toward zero
Truncates(idx, x) ==
    /\ Abs(idx) * TimeDen <= Abs(x)
    /\ Abs(x) < (Abs(idx) + 1) * TimeDen
    /\ idx * x >= 0

\* the window lies inside the recording and is not empty
ValidWindow ==
    /\ 0 <= WindowStart
    /\ WindowStart < WindowEnd
    /\ WindowEnd <= Len(args.abonent)

\* the indices of the recording inside the window whose abonent sample is
\* strictly above the threshold
WindowLoud ==
    {k \in 0..(Len(args.abonent) - 1) :
        /\ WindowStart <= k
        /\ k < WindowEnd
        /\ Abs(args.abonent[k + 1]) > self.amplitude_threshold}

\* C12: on a valid window, whose indices are time * samplerate truncated
\* toward zero, a successful call returns as abonent_speech_end_idx the
\* largest index of the recording inside the window whose abonent sample is
\* above the threshold, as agent_speech_start_idx the smallest index from
\* abonent_speech_end_idx to the end of the recording whose agent sample is
\* above the threshold, and as reaction_time_ms their difference divided by
\* samplerate, times 1000; the difference 40000 - 31999 at 8000 Hz gives a
\* reaction between 900 and 1100 ms, good under the default threshold.
Thm_C12 ==
    (outcome.status = "returned" /\ ValidWindow) =>
        LET e == outcome.value.abonent_speech_end_idx
            s == outcome.value.agent_speech_start_idx
            example == FMulInt(FDivInt(FromNat(40000 - 31999), 8000), 1000)
        IN  /\ Truncates(WindowStart, args.start_time * args.samplerate)
            /\ Truncates(WindowEnd, args.end_time * args.samplerate)
            /\ e \in WindowLoud
            /\ \A k \in WindowLoud : k <= e
            /\ s \in AgentLoudFrom(e)
            /\ \A j \in AgentLoudFrom(e) : s <= j
            /\ outcome.value.reaction_time_ms
                   = FMulInt(FDivInt(FromNat(s - e), args.samplerate), 1000)
            /\ FLeq(FromNat(900), example)
            /\ FLeq(example, FromNat(1100))
            /\ is_good_reaction(AudioDialogAnalyzer(8000, 1, FromNat(1200)),
                                example)

\* a window in the middle of the recording: the abonent speaks in it and
\* after it, the agent before it and after it, and the agent's start found
\* lies beyond the end of the window
Wit_C12 ==
    /\ outcome.status = "returned"
    /\ ValidWindow
    /\ WindowStart > 0
    /\ WindowEnd < Len(args.abonent)
    /\ Abs(args.abonent[WindowEnd + 1]) > self.amplitude_threshold
    /\ Abs(args.agent[1]) > self.amplitude_threshold
    /\ outcome.value.abonent_speech_end_idx = WindowEnd - 1
    /\ outcome.value.agent_speech_start_idx >= WindowEnd
    /\ outcome.value.reaction_time_ms # Zero

\* C13 as claimed: on channels of equal length every returned result has
\* 0 <= start_idx <= abonent_speech_end_idx < end_idx <= len(abonent) and
\* abonent_speech_end_idx <= agent_speech_start_idx < len(agent), and a
\* reaction time that is not negative.
Cex_C13 ==
    (/\ outcome.status = "returned"
     /\ Len(args.abonent) = Len(args.agent))
    => /\ 0 <= WindowStart
       /\ WindowStart <= outcome.value.abonent_speech_end_idx
       /\ outcome.value.abonent_speech_end_idx < WindowEnd
       /\ WindowEnd <= Len(args.abonent)
       /\ outcome.value.abonent_speech_end_idx
              <= outcome.value.agent_speech_start_idx
       /\ outcome.value.agent_speech_start_idx < Len(args.agent)
       /\ FLeq(Zero, outcome.value.reaction_time_ms)

====
